---- MODULE Spec2Model ----
(***************************************************************************)
(* Nominal Token Design Pattern, header nominal.v.3.0.h, with T = int.     *)
(*                                                                         *)
(* One instance of every store (Datum, Static_Datum, Solitary_Datum,       *)
(* Shared_Datum) and one Behavior whose callable is the one of             *)
(* nominal3.cpp (it outputs the Datum entry of the current token).         *)
(*                                                                         *)
(* A token is its size_t id; Token(size_t&) wraps any id, 0 included, so   *)
(* every operation draws its token from Ids.  A T& returned by an          *)
(* operator[] is modelled as a location (ref) that the same statement      *)
(* loads from or stores to.                                                *)
(***************************************************************************)
EXTENDS Naturals, Integers, FiniteSets, Sequences, TLC

\* Largest token id and largest value of T used as inputs.
MaxId == 2
MaxVal == 1
\* Largest number of pools a Shared_Datum allocates in a run.
MaxPools == 2
\* The largest value of the model's size_t (SIZE_MAX of a narrow size_t).
SizeMax == 7

Ids == 0..MaxId
Vals == 0..MaxVal
\* T{} and a zero-initialised static T, for T = int.
DefaultT == 0

Sizes == 0..SizeMax

Threads == {"main", "worker"}

VARIABLES
    datum_data,        \* Datum::data, a map keyed by token id
    datum_invalid,     \* static T invalid of Datum::operator[]
    static_data,       \* Static_Datum::data
    static_tokens,     \* Static_Datum::tokens
    static_invalid,    \* static T invalid of Static_Datum::operator[]
    solitary_data,     \* Solitary_Datum::data
    solitary_token,    \* Solitary_Datum::token
    solitary_invalid,  \* static T invalid of Solitary_Datum::operator[]
    shared_pools,      \* Shared_Datum::pools, token id -> pool id
    shared_data,       \* Shared_Datum::data, pool id -> T
    shared_count,      \* Shared_Datum::count
    shared_invalid,    \* static T invalid of Shared_Datum::operator[]
    tokens,            \* Behavior::tokens
    ct,                \* Behavior::ct
    pc,                \* each caller's position in invoke_for / broadcast
    frame,             \* each caller's locals and the record of its call
    last,              \* the store statement executed last, with its result
    assoc,             \* Datum: ids given a value and not dissociated since
    token_count,       \* static size_t count of Token::Token()
    issued,            \* the values Token::Token() has given to self so far
    self,              \* Token::self of the Token each thread constructs
    reg,               \* each thread's copy of count between read and write
    tpc,               \* each thread's position in Token::Token()
    serial             \* TRUE when the program lets one caller in at a time

datumVars == <<datum_data, datum_invalid, assoc>>
staticVars == <<static_data, static_tokens, static_invalid>>
solitaryVars == <<solitary_data, solitary_token, solitary_invalid>>
sharedVars == <<shared_pools, shared_data, shared_count, shared_invalid>>
behaviorVars == <<tokens, ct>>
callVars == <<pc, frame>>
tokenVars == <<token_count, issued, self, reg, tpc>>
vars == <<datumVars, staticVars, solitaryVars, sharedVars, behaviorVars,
          callVars, tokenVars, serial, last>>

(***************************************************************************)
(* std::unordered_map as a function whose domain is the set of keys.       *)
(***************************************************************************)
\* m[k] of unordered_map: inserts a value-initialised T when k is absent.
MapSubscript(m, k) == IF k \in DOMAIN m THEN m ELSE m @@ (k :> DefaultT)

\* m[k] = v
MapAssign(m, k, v) == [x \in DOMAIN m \cup {k} |-> IF x = k THEN v ELSE m[x]]

\* m.erase(k) left out: the entry stays.
MapEraseKept(m, k) == m

\* m.erase(k)
MapErase(m, k) == [x \in DOMAIN m \ {k} |-> m[x]]

EmptyMap == [x \in {} |-> DefaultT]

\* The location a T& designates: the static invalid, the single data member,
\* or the map entry of a key.
InvalidRef == [loc |-> "invalid", key |-> 0]
DataRef == [loc |-> "data", key |-> 0]
EntryRef(k) == [loc |-> "entry", key |-> k]

NoStatement == [op |-> "none", id |-> 0, val |-> 0, ret |-> 0, old |-> 0,
                ref |-> InvalidRef]
Statement(op, id, val, ret, old, ref) ==
    [op |-> op, id |-> id, val |-> val, ret |-> ret, old |-> old, ref |-> ref]

\* No caller is inside invoke_for or broadcast: the one control thread the
\* design assumes is free to start the next statement.
AllIdle == \A t \in Threads : pc[t] = "idle"

(***************************************************************************)
(* Datum<T>                                                                *)
(***************************************************************************)
\* Datum::operator[]: the map after the access and the T& returned.
DatumSubscript(d, token) ==
    IF token = 0
    THEN [data |-> d, ref |-> InvalidRef]
    ELSE [data |-> MapSubscript(d, token), ref |-> EntryRef(token)]

\* Reading through a T& of the Datum.
DatumLoad(d, inv, ref) == IF ref.loc = "invalid" THEN inv ELSE d[ref.key]

\* The value `datum[token]` yields in the current state.
DatumPeek(token) ==
    LET r == DatumSubscript(datum_data, token)
    IN  DatumLoad(r.data, datum_invalid, r.ref)

\* operator+(size_t&, Datum<T>&): datum.data[token], with no test of token.
DatumPlus(d, token) ==
    [data |-> MapSubscript(d, token), ref |-> EntryRef(token)]

\* The value stored for id before a statement, T{} when there is none.
DatumStored(id) == IF id \in DOMAIN datum_data THEN datum_data[id] ELSE DefaultT

\* What a statement on the Datum leaves alone.
DatumOnly ==
    UNCHANGED <<staticVars, solitaryVars, sharedVars, behaviorVars, callVars,
                tokenVars, serial>>

\* v = token[datum]   (Token::operator[](Datum<T>&))
DatumRead(id) ==
    LET r == DatumSubscript(datum_data, id)
    IN  /\ AllIdle /\ DatumOnly
        /\ datum_data' = r.data
        /\ last' = Statement("read", id, 0,
                             DatumLoad(r.data, datum_invalid, r.ref),
                             DatumStored(id), r.ref)
        /\ UNCHANGED <<datum_invalid, assoc>>

\* token[datum] = v
DatumWrite(id, v) ==
    LET r == DatumSubscript(datum_data, id)
    IN  /\ AllIdle /\ DatumOnly
        /\ IF r.ref.loc = "invalid"
           THEN datum_invalid' = v /\ datum_data' = r.data
           ELSE datum_data' = MapAssign(r.data, r.ref.key, v)
                /\ UNCHANGED datum_invalid
        /\ assoc' = assoc \cup {id}
        /\ last' = Statement("write", id, v, v, DatumStored(id), r.ref)

\* token + datum = v
DatumAssociate(id, v) ==
    LET r == DatumPlus(datum_data, id)
    IN  /\ AllIdle /\ DatumOnly
        /\ datum_data' = MapAssign(r.data, r.ref.key, v)
        /\ assoc' = assoc \cup {id}
        /\ last' = Statement("associate", id, v, v, DatumStored(id), r.ref)
        /\ UNCHANGED datum_invalid

\* v = token - datum: T val = datum[token]; datum.data.erase(token); return val;
DatumDissociate(id) ==
    LET r == DatumSubscript(datum_data, id)
        val == DatumLoad(r.data, datum_invalid, r.ref)
    IN  /\ AllIdle /\ DatumOnly
        /\ datum_data' = MapErase(r.data, id)
        /\ assoc' = assoc \ {id}
        /\ last' = Statement("dissociate", id, 0, val, DatumStored(id), r.ref)
        /\ UNCHANGED datum_invalid

(***************************************************************************)
(* Static_Datum<T>                                                         *)
(***************************************************************************)
\* Static_Datum::operator[]: the T& returned.
StaticSubscript(toks, token) ==
    IF token \notin toks THEN InvalidRef ELSE DataRef

StaticLoad(ref) == IF ref.loc = "invalid" THEN static_invalid ELSE static_data

\* The value `static_datum[token]` yields in the current state.
StaticPeek(token) == StaticLoad(StaticSubscript(static_tokens, token))

StaticOnly ==
    UNCHANGED <<datumVars, solitaryVars, sharedVars, behaviorVars, callVars,
                tokenVars, serial>>

\* 1 when id is subscribed, 0 when not.
StaticMember(id) == IF id \in static_tokens THEN 1 ELSE 0

\* token += static_datum
StaticSubscribe(id) ==
    /\ AllIdle /\ StaticOnly
    /\ static_tokens' = static_tokens \cup {id}
    /\ last' = Statement("subscribe", id, 0, 0, StaticMember(id), InvalidRef)
    /\ UNCHANGED <<static_data, static_invalid>>

\* tokens.clear() in place of tokens.erase(token).
StaticUnsubscribeClears(id) ==
    /\ AllIdle /\ StaticOnly
    /\ static_tokens' = {}
    /\ last' = Statement("unsubscribe", id, 0, 0, StaticMember(id), InvalidRef)
    /\ UNCHANGED <<static_data, static_invalid>>

\* token -= static_datum
StaticUnsubscribe(id) ==
    /\ AllIdle /\ StaticOnly
    /\ static_tokens' = static_tokens \ {id}
    /\ last' = Statement("unsubscribe", id, 0, 0, StaticMember(id), InvalidRef)
    /\ UNCHANGED <<static_data, static_invalid>>

\* v = token[static_datum]
StaticRead(id) ==
    LET ref == StaticSubscript(static_tokens, id)
    IN  /\ AllIdle /\ StaticOnly
        /\ last' = Statement("read", id, 0, StaticLoad(ref), StaticMember(id),
                             ref)
        /\ UNCHANGED staticVars

\* token[static_datum] = v
StaticWrite(id, v) ==
    LET ref == StaticSubscript(static_tokens, id)
    IN  /\ AllIdle /\ StaticOnly
        /\ IF ref.loc = "invalid"
           THEN static_invalid' = v /\ UNCHANGED static_data
           ELSE static_data' = v /\ UNCHANGED static_invalid
        /\ last' = Statement("write", id, v, v, StaticMember(id), ref)
        /\ UNCHANGED static_tokens

\* (T&)static_datum = v   (operator T&())
StaticDirectWrite(v) ==
    /\ AllIdle /\ StaticOnly
    /\ static_data' = v
    /\ last' = Statement("direct", 0, v, v, 0, DataRef)
    /\ UNCHANGED <<static_tokens, static_invalid>>

(***************************************************************************)
(* Solitary_Datum<T>                                                       *)
(***************************************************************************)
\* Solitary_Datum::operator[]: the T& returned.
SolitarySubscript(owner, itoken) ==
    IF itoken # owner THEN InvalidRef ELSE DataRef

SolitaryLoad(ref) ==
    IF ref.loc = "invalid" THEN solitary_invalid ELSE solitary_data

\* The value `solitary_datum[token]` yields in the current state.
SolitaryPeek(token) == SolitaryLoad(SolitarySubscript(solitary_token, token))

SolitaryOnly ==
    UNCHANGED <<datumVars, staticVars, sharedVars, behaviorVars, callVars,
                tokenVars, serial>>

\* The owner and the value before a statement.
SolitaryBefore == [token |-> solitary_token, data |-> solitary_data]

\* operator>>(size_t&, Solitary_Datum<T>&): the owner after the call.
SolitaryOwnerAfter(owner, token) == token

\* token >> solitary_datum;
SolitaryBind(id) ==
    /\ AllIdle /\ SolitaryOnly
    /\ solitary_token' = SolitaryOwnerAfter(solitary_token, id)
    /\ last' = Statement("bind", id, 0, solitary_data, SolitaryBefore, DataRef)
    /\ UNCHANGED <<solitary_data, solitary_invalid>>

\* token >> solitary_datum = v;
SolitaryBindAssign(id, v) ==
    /\ AllIdle /\ SolitaryOnly
    /\ solitary_token' = SolitaryOwnerAfter(solitary_token, id)
    /\ solitary_data' = v
    /\ last' = Statement("bind_assign", id, v, v, SolitaryBefore, DataRef)
    /\ UNCHANGED solitary_invalid

\* solitary_datum = v;   (Solitary_Datum::operator=)
SolitarySet(v) ==
    /\ AllIdle /\ SolitaryOnly
    /\ solitary_data' = v
    /\ last' = Statement("set", 0, v, v, SolitaryBefore, DataRef)
    /\ UNCHANGED <<solitary_token, solitary_invalid>>

\* v = token[solitary_datum]
SolitaryRead(id) ==
    LET ref == SolitarySubscript(solitary_token, id)
    IN  /\ AllIdle /\ SolitaryOnly
        /\ last' = Statement("read", id, 0, SolitaryLoad(ref), SolitaryBefore,
                             ref)
        /\ UNCHANGED solitaryVars

\* v = behavior[solitary_datum]   (Behavior::operator[](Solitary_Datum<T>&))
SolitaryReadVia ==
    LET ref == SolitarySubscript(solitary_token, ct)
    IN  /\ AllIdle /\ SolitaryOnly
        /\ last' = Statement("read_via", ct, 0, SolitaryLoad(ref),
                             SolitaryBefore, ref)
        /\ UNCHANGED solitaryVars

\* token[solitary_datum] = v
SolitaryWrite(id, v) ==
    LET ref == SolitarySubscript(solitary_token, id)
    IN  /\ AllIdle /\ SolitaryOnly
        /\ IF ref.loc = "invalid"
           THEN solitary_invalid' = v /\ UNCHANGED solitary_data
           ELSE solitary_data' = v /\ UNCHANGED solitary_invalid
        /\ last' = Statement("write", id, v, v, SolitaryBefore, ref)
        /\ UNCHANGED solitary_token

(***************************************************************************)
(* Shared_Datum<T>                                                         *)
(***************************************************************************)
\* A subscript that indexes the pool values by the token itself.
SharedSubscriptByToken(pools, d, token) ==
    IF token \notin DOMAIN pools
    THEN [data |-> d, ref |-> InvalidRef]
    ELSE [data |-> MapSubscript(d, token), ref |-> EntryRef(token)]

\* Shared_Datum::operator[]: the pool values after the access and the T&.
SharedSubscript(pools, d, token) ==
    IF token \notin DOMAIN pools
    THEN [data |-> d, ref |-> InvalidRef]
    ELSE [data |-> MapSubscript(d, pools[token]), ref |-> EntryRef(pools[token])]

SharedLoad(d, inv, ref) == IF ref.loc = "invalid" THEN inv ELSE d[ref.key]

\* The value `shared_datum[token]` yields in the current state.
SharedPeek(token) ==
    LET r == SharedSubscript(shared_pools, shared_data, token)
    IN  SharedLoad(r.data, shared_invalid, r.ref)

SharedOnly ==
    UNCHANGED <<datumVars, staticVars, solitaryVars, behaviorVars, callVars,
                tokenVars, serial, last>>

\* datum.pools[token] = datum.count, count not incremented.
SharedCreatePoolReusing(id, v) ==
    LET n == shared_count
        pools == MapAssign(shared_pools, id, n)
        r == SharedSubscript(pools, shared_data, id)
    IN  /\ AllIdle
        /\ shared_count < MaxPools
        /\ shared_count' = n
        /\ shared_pools' = pools
        /\ shared_data' = MapAssign(r.data, r.ref.key, v)
        /\ UNCHANGED shared_invalid
        /\ SharedOnly

\* token + shared_datum = v:
\* datum.pools[token] = ++datum.count; return datum[token];
SharedCreatePool(id, v) ==
    LET n == shared_count + 1
        pools == MapAssign(shared_pools, id, n)
        r == SharedSubscript(pools, shared_data, id)
    IN  /\ AllIdle
        /\ shared_count < MaxPools
        /\ shared_count' = n
        /\ shared_pools' = pools
        /\ shared_data' = MapAssign(r.data, r.ref.key, v)
        /\ UNCHANGED shared_invalid
        /\ SharedOnly

\* token >> shared_datum:
\* datum.pools[token] = datum.count; return datum.pools[token];
SharedJoinLatest(id) ==
    /\ AllIdle
    /\ shared_pools' = MapAssign(shared_pools, id, shared_count)
    /\ UNCHANGED <<shared_data, shared_count, shared_invalid>>
    /\ SharedOnly

\* The val that `token - shared_datum` returns: T val = datum[token].
SharedLeaveValue(id) ==
    LET r == SharedSubscript(shared_pools, shared_data, id)
    IN  SharedLoad(r.data, shared_invalid, r.ref)

\* v = token - shared_datum:
\* T val = datum[token]; datum.pools.erase(token); return val;
SharedLeave(id) ==
    LET r == SharedSubscript(shared_pools, shared_data, id)
    IN  /\ AllIdle
        /\ shared_data' = r.data
        /\ shared_pools' = MapErase(shared_pools, id)
        /\ UNCHANGED <<shared_count, shared_invalid>>
        /\ SharedOnly

\* v = token[shared_datum]
SharedRead(id) ==
    LET r == SharedSubscript(shared_pools, shared_data, id)
    IN  /\ AllIdle
        /\ shared_data' = r.data
        /\ UNCHANGED <<shared_pools, shared_count, shared_invalid>>
        /\ SharedOnly

\* token[shared_datum] = v
SharedWrite(id, v) ==
    LET r == SharedSubscript(shared_pools, shared_data, id)
    IN  /\ AllIdle
        /\ IF r.ref.loc = "invalid"
           THEN shared_invalid' = v /\ shared_data' = r.data
           ELSE shared_data' = MapAssign(r.data, r.ref.key, v)
                /\ UNCHANGED shared_invalid
        /\ UNCHANGED <<shared_pools, shared_count>>
        /\ SharedOnly

\* A lookup that writes ct before the membership test.
BehaviorSubscriptCtFirst(toks, c, token) ==
    IF token \notin toks
    THEN [fn |-> "invalid", ct |-> token]
    ELSE [fn |-> "behavior", ct |-> token]

(***************************************************************************)
(* Behavior<R(Args...)>: membership and lookup.                            *)
(***************************************************************************)
\* The lookup with  ct = token;  left out.
BehaviorSubscriptCtKept(toks, c, token) ==
    IF token \notin toks
    THEN [fn |-> "invalid", ct |-> c]
    ELSE [fn |-> "behavior", ct |-> c]

\* Behavior::operator[](const size_t&): the std::function returned
\* ("invalid": the empty static one) and ct after the call.
BehaviorSubscript(toks, c, token) ==
    IF token \notin toks
    THEN [fn |-> "invalid", ct |-> c]
    ELSE [fn |-> "behavior", ct |-> token]

BehaviorOnly ==
    UNCHANGED <<datumVars, staticVars, solitaryVars, sharedVars, callVars,
                tokenVars, serial, last>>

\* token += behavior
BehaviorSubscribe(id) ==
    /\ AllIdle /\ BehaviorOnly
    /\ tokens' = tokens \cup {id}
    /\ UNCHANGED ct

\* token -= behavior
BehaviorUnsubscribe(id) ==
    /\ AllIdle /\ BehaviorOnly
    /\ tokens' = tokens \ {id}
    /\ UNCHANGED ct

\* behavior[token];   the lookup alone, its result not called
BehaviorLookup(id) ==
    /\ AllIdle /\ BehaviorOnly
    /\ ct' = BehaviorSubscript(tokens, ct, id).ct
    /\ UNCHANGED tokens

(***************************************************************************)
(* Initial states: every object as its constructor leaves it.              *)
(***************************************************************************)
InitDatum ==
    /\ datum_data = EmptyMap
    /\ datum_invalid = DefaultT
    /\ assoc = {}

\* Static_Datum(const T& idata)
InitStatic(idata) ==
    /\ static_data = idata
    /\ static_tokens = {}
    /\ static_invalid = DefaultT

\* Solitary_Datum(const T& idata), size_t token = 0
InitSolitary(idata) ==
    /\ solitary_data = idata
    /\ solitary_token = 0
    /\ solitary_invalid = DefaultT

InitShared ==
    /\ shared_pools = EmptyMap
    /\ shared_data = EmptyMap
    /\ shared_count = 0
    /\ shared_invalid = DefaultT

IdleFrame == [op |-> "none", id |-> 0, fn |-> "none", todo |-> {},
              seen |-> {}, execs |-> 0, res |-> "none", out |-> <<>>,
              pre |-> [ct |-> 0, tokens |-> {}, data |-> EmptyMap]]

InitBehavior ==
    /\ tokens = {}
    /\ ct = 0
    /\ pc = [t \in Threads |-> "idle"]
    /\ frame = [t \in Threads |-> IdleFrame]

\* static size_t count after n earlier Token() calls (0: as initialised),
\* no Token under construction.
InitToken(n) ==
    /\ token_count = n
    /\ issued = 1..n
    /\ self = [t \in Threads |-> 0]
    /\ reg = [t \in Threads |-> 0]
    /\ tpc = [t \in Threads |-> "idle"]

(***************************************************************************)
(* Behavior<R(Args...)>: invoke_for and broadcast, step by step.           *)
(*                                                                         *)
(*   idle -InvokeLookup-> call -InvokeCall-> body -CallableRun-> done      *)
(*   idle -BroadcastBegin-> loop -BroadcastStep-> body -CallableRun-> loop *)
(*        loop -BroadcastEnd-> done;   done -Return-> idle                 *)
(*                                                                         *)
(* frame[t] holds the caller's locals (fn: the std::function it got, todo: *)
(* the members the range-for has not visited, id: the token at hand) and   *)
(* the record of the call: pre (ct, tokens and the Datum when it began),   *)
(* execs (runs of the callable), seen (the ct each run observed), out (the *)
(* lines the runs wrote), res (how the call ended).                        *)
(***************************************************************************)
CallOnly ==
    UNCHANGED <<staticVars, solitaryVars, sharedVars, tokenVars, serial, last>>

Snapshot == [ct |-> ct, tokens |-> tokens, data |-> datum_data]

\* A caller that starts a call whatever the other callers are doing.
MayCallUnlocked(t) == pc[t] = "idle"

\* A caller may start a call of the Behavior; a program that serializes its
\* callers lets it start when no other call is under way.
MayCall(t) ==
    /\ pc[t] = "idle"
    /\ serial => AllIdle

\* token[behavior]   (Token::operator[](Behavior&): return behavior[self];)
InvokeLookup(t, id) ==
    LET r == BehaviorSubscript(tokens, ct, id)
    IN  /\ MayCall(t) /\ CallOnly
        /\ ct' = r.ct
        /\ pc' = [pc EXCEPT ![t] = "call"]
        /\ frame' = [frame EXCEPT ![t] =
                        [IdleFrame EXCEPT !.op = "invoke", !.id = id,
                                          !.fn = r.fn, !.pre = Snapshot]]
        /\ UNCHANGED <<tokens, datumVars>>

\* ...(args): calling the std::function obtained; an empty one throws
\* std::bad_function_call.
InvokeCall(t) ==
    /\ pc[t] = "call" /\ CallOnly
    /\ IF frame[t].fn = "behavior"
       THEN /\ pc' = [pc EXCEPT ![t] = "body"]
            /\ UNCHANGED frame
       ELSE /\ pc' = [pc EXCEPT ![t] = "done"]
            /\ frame' = [frame EXCEPT ![t].res = "bad_function_call"]
    /\ UNCHANGED <<behaviorVars, datumVars>>

\* The callable of nominal3.cpp: std::cout << behavior[Name] << std::endl;
\* behavior[Name] is Name[ct]   (Behavior::operator[](Datum<T>&)).
CallableRun(t) ==
    LET r == DatumSubscript(datum_data, ct)
        v == DatumLoad(r.data, datum_invalid, r.ref)
    IN  /\ pc[t] = "body" /\ CallOnly
        /\ datum_data' = r.data
        /\ frame' = [frame EXCEPT ![t].seen = @ \cup {ct},
                                  ![t].execs = @ + 1,
                                  ![t].out = Append(@, v),
                                  ![t].res = IF frame[t].op = "invoke"
                                             THEN "ok" ELSE @]
        /\ pc' = [pc EXCEPT ![t] = IF frame[t].op = "invoke"
                                   THEN "done" ELSE "loop"]
        /\ UNCHANGED <<behaviorVars, datum_invalid, assoc>>

\* behavior(args): entering  for (auto& token : tokens)
BroadcastBegin(t) ==
    /\ MayCall(t) /\ CallOnly
    /\ pc' = [pc EXCEPT ![t] = "loop"]
    /\ frame' = [frame EXCEPT ![t] =
                    [IdleFrame EXCEPT !.op = "broadcast", !.todo = tokens,
                                      !.pre = Snapshot]]
    /\ UNCHANGED <<behaviorVars, datumVars>>

\* The iteration with  ct = token;  left out.
BroadcastAssignSkipped(c, token) == c

\* ct = token;
BroadcastAssign(c, token) == token

\* One iteration, up to the call: the next member in the set's own order,
\* ct = token; behavior(args...)
BroadcastStep(t) ==
    /\ pc[t] = "loop" /\ CallOnly
    /\ \E token \in frame[t].todo :
          /\ ct' = BroadcastAssign(ct, token)
          /\ frame' = [frame EXCEPT ![t].todo = @ \ {token}, ![t].id = token]
    /\ pc' = [pc EXCEPT ![t] = "body"]
    /\ UNCHANGED <<tokens, datumVars>>

\* The range-for is past the last member.
BroadcastEnd(t) ==
    /\ pc[t] = "loop" /\ CallOnly
    /\ frame[t].todo = {}
    /\ pc' = [pc EXCEPT ![t] = "done"]
    /\ frame' = [frame EXCEPT ![t].res = "ok"]
    /\ UNCHANGED <<behaviorVars, datumVars>>

\* The caller goes on to its next statement.
Return(t) ==
    /\ pc[t] = "done" /\ CallOnly
    /\ pc' = [pc EXCEPT ![t] = "idle"]
    /\ frame' = [frame EXCEPT ![t] = IdleFrame]
    /\ UNCHANGED <<behaviorVars, datumVars>>

(***************************************************************************)
(* Token::Token() and Token::Token(size_t&).                               *)
(*                                                                         *)
(*   Token() { static size_t count = 0; self = ++count; }                  *)
(*                                                                         *)
(* count is a plain size_t: ++count is a read of count (TokenLoad) and a   *)
(* write of the incremented value, which is also the value self gets       *)
(* (TokenStore).  Two threads in the constructor at once are a data race;  *)
(* the outcomes modelled are those of every interleaving of the reads and  *)
(* writes.  idle -TokenLoad-> incr -TokenStore-> made -TokenDrop-> idle.   *)
(***************************************************************************)
\* ++ on a size_t: unsigned arithmetic, SIZE_MAX + 1 is 0.
Increment(n) == (n + 1) % (SizeMax + 1)

TokenOnly ==
    UNCHANGED <<datumVars, staticVars, solitaryVars, sharedVars, behaviorVars,
                callVars, serial>>

\* A thread may enter the constructor; a program that serializes its
\* callers lets it in when no other thread is inside.
MayConstruct(t) ==
    /\ tpc[t] = "idle"
    /\ serial => \A u \in Threads : tpc[u] # "incr"

\* ++count, the read
TokenLoad(t) ==
    /\ MayConstruct(t)
    /\ reg' = [reg EXCEPT ![t] = token_count]
    /\ tpc' = [tpc EXCEPT ![t] = "incr"]
    /\ UNCHANGED <<token_count, issued, self, last>>
    /\ TokenOnly

\* self = count + 1 with count left as it was.
TokenStoreCountKept(t) ==
    LET n == Increment(reg[t])
    IN  /\ tpc[t] = "incr"
        /\ self' = [self EXCEPT ![t] = n]
        /\ issued' = issued \cup {n}
        /\ last' = Statement("create", n, 0, n, issued, InvalidRef)
        /\ tpc' = [tpc EXCEPT ![t] = "made"]
        /\ UNCHANGED <<token_count, reg>>
        /\ TokenOnly

\* ++count, the write, and self = <the value written>
TokenStore(t) ==
    LET n == Increment(reg[t])
    IN  /\ tpc[t] = "incr"
        /\ token_count' = n
        /\ self' = [self EXCEPT ![t] = n]
        /\ issued' = issued \cup {n}
        /\ last' = Statement("create", n, 0, n, issued, InvalidRef)
        /\ tpc' = [tpc EXCEPT ![t] = "made"]
        /\ UNCHANGED reg
        /\ TokenOnly

\* Token(size_t& id) : self(id) {}
TokenWrap(t, id) ==
    /\ tpc[t] = "idle"
    /\ self' = [self EXCEPT ![t] = id]
    /\ last' = Statement("wrap", id, 0, id, issued, InvalidRef)
    /\ tpc' = [tpc EXCEPT ![t] = "made"]
    /\ UNCHANGED <<token_count, issued, reg>>
    /\ TokenOnly

\* The Token goes out of scope.
TokenDrop(t) ==
    /\ tpc[t] = "made"
    /\ self' = [self EXCEPT ![t] = 0]
    /\ tpc' = [tpc EXCEPT ![t] = "idle"]
    /\ UNCHANGED <<token_count, issued, reg, last>>
    /\ TokenOnly

(***************************************************************************)
(* The Datum alone.                                                        *)
(***************************************************************************)
InitDatumSpec ==
    /\ InitDatum /\ InitStatic(DefaultT) /\ InitSolitary(DefaultT)
    /\ InitShared /\ InitBehavior /\ last = NoStatement
    /\ InitToken(0) /\ serial = TRUE

NextDatum ==
    \/ \E id \in Ids, v \in Vals : DatumAssociate(id, v)
    \/ \E id \in Ids : DatumRead(id)
    \/ \E id \in Ids, v \in Vals : DatumWrite(id, v)
    \/ \E id \in Ids : DatumDissociate(id)

SpecDatum == InitDatumSpec /\ [][NextDatum]_vars

(***************************************************************************)
(* The Static_Datum alone.                                                 *)
(***************************************************************************)
InitStaticSpec ==
    /\ InitDatum /\ (\E idata \in Vals : InitStatic(idata))
    /\ InitSolitary(DefaultT) /\ InitShared /\ InitBehavior
    /\ last = NoStatement
    /\ InitToken(0) /\ serial = TRUE

NextStatic ==
    \/ \E id \in Ids : StaticSubscribe(id)
    \/ \E id \in Ids : StaticUnsubscribe(id)
    \/ \E id \in Ids : StaticRead(id)
    \/ \E id \in Ids, v \in Vals : StaticWrite(id, v)
    \/ \E v \in Vals : StaticDirectWrite(v)

SpecStatic == InitStaticSpec /\ [][NextStatic]_vars

(***************************************************************************)
(* The Solitary_Datum, read by tokens and through the Behavior.            *)
(***************************************************************************)
InitSolitarySpec ==
    /\ InitDatum /\ InitStatic(DefaultT)
    /\ (\E idata \in Vals : InitSolitary(idata))
    /\ InitShared /\ InitBehavior /\ last = NoStatement
    /\ InitToken(0) /\ serial = TRUE

NextSolitary ==
    \/ \E id \in Ids : SolitaryBind(id)
    \/ \E id \in Ids, v \in Vals : SolitaryBindAssign(id, v)
    \/ \E v \in Vals : SolitarySet(v)
    \/ \E id \in Ids : SolitaryRead(id)
    \/ SolitaryReadVia
    \/ \E id \in Ids, v \in Vals : SolitaryWrite(id, v)
    \/ \E id \in Ids : BehaviorSubscribe(id)
    \/ \E id \in Ids : BehaviorUnsubscribe(id)
    \/ \E id \in Ids : BehaviorLookup(id)

SpecSolitary == InitSolitarySpec /\ [][NextSolitary]_vars

(***************************************************************************)
(* The Shared_Datum alone.                                                 *)
(***************************************************************************)
InitSharedSpec ==
    /\ InitDatum /\ InitStatic(DefaultT) /\ InitSolitary(DefaultT)
    /\ InitShared /\ InitBehavior /\ last = NoStatement
    /\ InitToken(0) /\ serial = TRUE

NextShared ==
    \/ \E id \in Ids, v \in Vals : SharedCreatePool(id, v)
    \/ \E id \in Ids : SharedJoinLatest(id)
    \/ \E id \in Ids : SharedLeave(id)
    \/ \E id \in Ids : SharedRead(id)
    \/ \E id \in Ids, v \in Vals : SharedWrite(id, v)

SpecShared == InitSharedSpec /\ [][NextShared]_vars

(***************************************************************************)
(* The four objects with membership in one program that works on one of    *)
(* them at a time: a statement on an object is taken while the other       *)
(* objects are as constructed (and, for the objects whose statements are   *)
(* not recorded in last, while no recorded statement was made).  The       *)
(* objects share no state, so every run of one object is a run of this     *)
(* program.                                                                *)
(***************************************************************************)
BehaviorFresh == tokens = {} /\ ct = 0

DatumAlone == InitStatic(DefaultT) /\ InitShared /\ BehaviorFresh

StaticAlone == InitDatum /\ InitShared /\ BehaviorFresh

SharedAlone ==
    InitDatum /\ InitStatic(DefaultT) /\ BehaviorFresh /\ last = NoStatement

BehaviorAlone ==
    InitDatum /\ InitStatic(DefaultT) /\ InitShared /\ last = NoStatement

InitStores ==
    /\ InitDatum /\ InitStatic(DefaultT) /\ InitSolitary(DefaultT)
    /\ InitShared /\ InitBehavior /\ last = NoStatement
    /\ InitToken(0) /\ serial = TRUE

NextStores ==
    \/ \E id \in Ids, v \in Vals : DatumAlone /\ DatumAssociate(id, v)
    \/ \E id \in Ids : DatumAlone /\ DatumRead(id)
    \/ \E id \in Ids, v \in Vals : DatumAlone /\ DatumWrite(id, v)
    \/ \E id \in Ids : DatumAlone /\ DatumDissociate(id)
    \/ \E id \in Ids : StaticAlone /\ StaticSubscribe(id)
    \/ \E id \in Ids : StaticAlone /\ StaticUnsubscribe(id)
    \/ \E id \in Ids : StaticAlone /\ StaticRead(id)
    \/ \E id \in Ids, v \in Vals : StaticAlone /\ StaticWrite(id, v)
    \/ \E v \in Vals : StaticAlone /\ StaticDirectWrite(v)
    \/ \E id \in Ids, v \in Vals : SharedAlone /\ SharedCreatePool(id, v)
    \/ \E id \in Ids : SharedAlone /\ SharedJoinLatest(id)
    \/ \E id \in Ids : SharedAlone /\ SharedLeave(id)
    \/ \E id \in Ids : SharedAlone /\ SharedRead(id)
    \/ \E id \in Ids, v \in Vals : SharedAlone /\ SharedWrite(id, v)
    \/ \E id \in Ids : BehaviorAlone /\ BehaviorSubscribe(id)
    \/ \E id \in Ids : BehaviorAlone /\ BehaviorUnsubscribe(id)
    \/ \E id \in Ids : BehaviorAlone /\ BehaviorLookup(id)

SpecStores == InitStores /\ [][NextStores]_vars

(***************************************************************************)
(* Tokens constructed one after the other, by Token() and Token(size_t&).  *)
(***************************************************************************)
InitTokenSpec ==
    /\ InitDatum /\ InitStatic(DefaultT) /\ InitSolitary(DefaultT)
    /\ InitShared /\ InitBehavior /\ last = NoStatement
    /\ InitToken(0) /\ serial = TRUE

NextToken ==
    \/ \E t \in Threads : TokenLoad(t)
    \/ \E t \in Threads : TokenStore(t)
    \/ \E t \in Threads, id \in Sizes : TokenWrap(t, id)
    \/ \E t \in Threads : TokenDrop(t)

SpecToken == InitTokenSpec /\ [][NextToken]_vars

(***************************************************************************)
(* Two threads that each construct one Token with Token(), after any       *)
(* number of earlier constructions, serialized by the program or not.      *)
(***************************************************************************)
InitTokenRace ==
    /\ InitDatum /\ InitStatic(DefaultT) /\ InitSolitary(DefaultT)
    /\ InitShared /\ InitBehavior /\ last = NoStatement
    /\ (\E n \in Sizes : InitToken(n)) /\ serial \in BOOLEAN

NextTokenRace ==
    \/ \E t \in Threads : TokenLoad(t)
    \/ \E t \in Threads : TokenStore(t)

SpecTokenRace == InitTokenRace /\ [][NextTokenRace]_vars

(***************************************************************************)
(* The Behavior driven by its callers one call at a time, over a Datum     *)
(* that holds any entries for the non-zero tokens.                         *)
(***************************************************************************)
DatumContents ==
    UNION {[S -> Vals] : S \in SUBSET (Ids \ {0})}

Init ==
    /\ datum_data \in DatumContents
    /\ datum_invalid = DefaultT
    /\ assoc = DOMAIN datum_data
    /\ InitStatic(DefaultT) /\ InitSolitary(DefaultT)
    /\ InitShared /\ InitBehavior /\ last = NoStatement
    /\ InitToken(0) /\ serial = TRUE

Next ==
    \/ \E id \in Ids : BehaviorSubscribe(id)
    \/ \E id \in Ids : BehaviorUnsubscribe(id)
    \/ \E t \in Threads, id \in Ids : InvokeLookup(t, id)
    \/ \E t \in Threads : InvokeCall(t)
    \/ \E t \in Threads : CallableRun(t)
    \/ \E t \in Threads : BroadcastBegin(t)
    \/ \E t \in Threads : BroadcastStep(t)
    \/ \E t \in Threads : BroadcastEnd(t)
    \/ \E t \in Threads : Return(t)

Spec == Init /\ [][Next]_vars

(***************************************************************************)
(* Two callers of the Behavior, invoke_for or broadcast.  Serialized by the *)
(* program, a caller starts after the call before it has returned; not     *)
(* serialized, each caller makes one call at any time.  The Behavior has   *)
(* any set of subscribers and the Datum a name for every non-zero token.   *)
(* The unserialized calls are a data race on ct; the outcomes modelled are *)
(* those of every interleaving of the callers' reads and writes of ct.     *)
(***************************************************************************)
\* token + Name = <a name>, for every non-zero token.
Names == [id \in Ids \ {0} |-> id % (MaxVal + 1)]

InitRace ==
    /\ datum_data = Names
    /\ datum_invalid = DefaultT
    /\ assoc = DOMAIN datum_data
    /\ InitStatic(DefaultT) /\ InitSolitary(DefaultT) /\ InitShared
    /\ tokens \in SUBSET Ids
    /\ ct = 0
    /\ pc = [t \in Threads |-> "idle"]
    /\ frame = [t \in Threads |-> IdleFrame]
    /\ last = NoStatement
    /\ InitToken(0) /\ serial \in BOOLEAN

NextRace ==
    \/ \E t \in Threads, id \in Ids : InvokeLookup(t, id)
    \/ \E t \in Threads : InvokeCall(t)
    \/ \E t \in Threads : CallableRun(t)
    \/ \E t \in Threads : BroadcastBegin(t)
    \/ \E t \in Threads : BroadcastStep(t)
    \/ \E t \in Threads : BroadcastEnd(t)
    \/ \E t \in Threads : serial /\ Return(t)

SpecRace == InitRace /\ [][NextRace]_vars

(***************************************************************************)
(* Behavior dispatch: C1, C2, C3 (under Spec).                             *)
(***************************************************************************)
\* The call caller t is in, or has just finished, is invoke_for(id) with id
\* subscribed (resp. not subscribed) when the call began.
InvokeOfMember(t) ==
    frame[t].op = "invoke" /\ frame[t].id \in frame[t].pre.tokens
InvokeOfStranger(t) ==
    frame[t].op = "invoke" /\ frame[t].id \notin frame[t].pre.tokens

\* C1: invoke_for(id) with id subscribed runs the stored callable exactly
\* once; ct is id from the lookup on, while the callable runs, and still
\* when invoke_for has returned.
C1_InvokeRunsOnceInContext ==
    \A t \in Threads :
        InvokeOfMember(t) =>
            /\ pc[t] = "call" =>
                  frame[t].fn = "behavior" /\ ct = frame[t].id
                  /\ frame[t].execs = 0
            /\ pc[t] = "body" => ct = frame[t].id /\ frame[t].execs = 0
            /\ pc[t] = "done" =>
                  frame[t].execs = 1 /\ frame[t].seen = {frame[t].id}
                  /\ frame[t].res = "ok" /\ ct = frame[t].id

\* An invoke_for of a member has returned, having moved ct from another
\* token to its own and run the callable.
C1_Witness ==
    \E t \in Threads :
        /\ InvokeOfMember(t) /\ pc[t] = "done"
        /\ frame[t].pre.ct # frame[t].id /\ frame[t].pre.ct # 0
        /\ frame[t].execs = 1 /\ ct = frame[t].id

\* C2: invoke_for(id) with id not subscribed has no observable effect: the
\* lookup leaves ct alone, the callable it returns does nothing, so the
\* stored callable is not run, nothing is written, the Behavior and the
\* Datum are as before, and no exception is raised.
C2_InvokeOfStrangerIsSilent ==
    \A t \in Threads :
        InvokeOfStranger(t) =>
            /\ ct = frame[t].pre.ct
            /\ tokens = frame[t].pre.tokens
            /\ datum_data = frame[t].pre.data
            /\ frame[t].execs = 0 /\ frame[t].out = <<>>
            /\ frame[t].res # "bad_function_call"

\* C3: broadcast over the subscribed set S runs the callable exactly |S|
\* times, once per member in some order, each run with ct the member being
\* visited; over the empty set it runs nothing and leaves ct alone.
C3_BroadcastOncePerMember ==
    \A t \in Threads :
        frame[t].op = "broadcast" =>
            /\ pc[t] = "body" =>
                  /\ ct = frame[t].id
                  /\ frame[t].id \in frame[t].pre.tokens \ frame[t].seen
            /\ frame[t].seen \subseteq frame[t].pre.tokens
            /\ frame[t].execs = Cardinality(frame[t].seen)
            /\ pc[t] = "done" =>
                  /\ frame[t].seen = frame[t].pre.tokens
                  /\ frame[t].execs = Cardinality(frame[t].pre.tokens)
                  /\ frame[t].pre.tokens = {} => ct = frame[t].pre.ct

\* A broadcast over at least two members has finished.
C3_Witness ==
    \E t \in Threads :
        /\ frame[t].op = "broadcast" /\ pc[t] = "done"
        /\ Cardinality(frame[t].pre.tokens) >= 2
        /\ frame[t].execs = Cardinality(frame[t].pre.tokens)
        /\ ct # frame[t].pre.ct

(***************************************************************************)
(* The stores: C4 (under SpecStatic), C5, C6, C7 (under SpecDatum),        *)
(* C8 (under SpecStatic), C9, C10 (under SpecSolitary).                    *)
(***************************************************************************)
\* C4: in all four stores a read for an absent or unauthorized identity
\* returns the one fixed default T{}, whatever statements ran before, a
\* write through the result of an earlier failed read included.
C4_FailedReadIsFixedDefault ==
    \A id \in Ids :
        /\ DatumSubscript(datum_data, id).ref = InvalidRef =>
              DatumPeek(id) = DefaultT
        /\ StaticSubscript(static_tokens, id) = InvalidRef =>
              StaticPeek(id) = DefaultT
        /\ SolitarySubscript(solitary_token, id) = InvalidRef =>
              SolitaryPeek(id) = DefaultT
        /\ SharedSubscript(shared_pools, shared_data, id).ref = InvalidRef =>
              SharedPeek(id) = DefaultT

\* C5: Datum, id # 0: a read that follows associate(id, v) yields v;
\* dissociate(id) returns the value stored for id (T{} when none), and a
\* read that follows it yields T{}.
C5_DatumRoundTrip ==
    [][ /\ (last.op = "associate" /\ last.id # 0
            /\ last'.op = "read" /\ last'.id = last.id) =>
               last'.ret = last.val
        /\ (last'.op = "dissociate" /\ last'.id # 0) =>
               last'.ret = last'.old
        /\ (last.op = "dissociate" /\ last.id # 0
            /\ last'.op = "read" /\ last'.id = last.id) =>
               last'.ret = DefaultT
      ]_vars

\* A dissociate of a non-zero id has returned the non-default value an
\* associate stored, and the id reads as T{} again.
C5_Witness ==
    /\ last.op = "dissociate" /\ last.id # 0
    /\ last.ret # DefaultT /\ last.ret = last.old
    /\ last.id \notin DOMAIN datum_data
    /\ DatumPeek(last.id) = DefaultT

\* C6: Datum: every identity that is not currently associated (never given
\* a value, or dissociated since) reads as T{}, whatever was done with the
\* other identities, and also after it has itself been read.
C6_UnassociatedReadsDefault ==
    \A id \in Ids \ assoc : DatumPeek(id) = DefaultT

\* C7: Datum: associate(0, v) is a no-op: the map never holds an entry
\* keyed by 0, and a read of 0 returns the default, never a stored entry.
C7_NoEntryForZero ==
    /\ 0 \notin DOMAIN datum_data
    /\ DatumSubscript(datum_data, 0).ref = InvalidRef
    /\ DatumPeek(0) = DefaultT

\* C8: Static_Datum: a write of the shared value, through a member's read
\* reference or through the conversion to T&, is what every member reads
\* next; once a member has unsubscribed it reads T{}, and the remaining
\* members still read the shared value.
C8_SharedValueAndUnsubscribe ==
    /\ (last.op \in {"write", "direct"} /\ last.ref = DataRef) =>
          \A id \in static_tokens : StaticPeek(id) = last.val
    /\ (last.op = "unsubscribe" /\ last.old = 1) =>
          /\ StaticPeek(last.id) = DefaultT
          /\ \A id \in static_tokens : StaticPeek(id) = static_data

\* C9: Solitary_Datum: a read returns the stored value only for the
\* identity bound at the time, and the default otherwise; while the store is
\* unbound (owner 0) every read, with identity 0 or through a Behavior whose
\* ct is 0 included, returns the default.
C9_OnlyOwnerReadsValue ==
    last.op \in {"read", "read_via"} =>
        LET bound == last.old.token # 0 /\ last.id = last.old.token
        IN  /\ last.ref = DataRef => bound
            /\ ~bound => last.ret = DefaultT

\* C10: Solitary_Datum: bind(id2) makes id2 the owner in one step and keeps
\* the value: id2 reads the value and the owner it replaced reads T{};
\* set(v) changes the value and keeps the owner.
C10_Rebinding ==
    /\ last.op = "bind" =>
          /\ solitary_token = last.id
          /\ solitary_data = last.old.data
          /\ SolitaryPeek(last.id) = solitary_data
          /\ last.old.token \notin {0, last.id} =>
                SolitaryPeek(last.old.token) = DefaultT
    /\ last.op = "set" =>
          /\ solitary_data = last.val
          /\ solitary_token = last.old.token

(***************************************************************************)
(* Shared_Datum claims.  A step of SpecShared is one statement; the        *)
(* unprimed variables are the store before it, the primed ones after it.   *)
(***************************************************************************)
\* Every identity other than id reads after the step what it read before.
SharedOthersReadSame(id) ==
    \A other \in Ids \ {id} : SharedPeek(other)' = SharedPeek(other)

\* The value held for pool p, T{} when the pool holds none.
SharedPoolValue(p) == IF p \in DOMAIN shared_data THEN shared_data[p] ELSE DefaultT

\* C11: create_pool_for(idA, v) puts idA in a pool of its own that holds v;
\* join_latest_pool(idB) after it puts idB in that same pool, so both read
\* the pool's value; a write through a member of a pool is read by every
\* member; a further create_pool_for(idC, v2) gives idC its own pool with
\* v2 and leaves the reads of the others as they were.  (A statement is
\* tried on a step only for the identities and values the step can be of.)
C11_PoolSharing ==
    [][ /\ shared_count' # shared_count =>
              \A id \in DOMAIN shared_pools', v \in Vals :
                  (shared_pools'[id] = shared_count'
                   /\ SharedCreatePool(id, v)) =>
                      /\ SharedPeek(id)' = v
                      /\ \A other \in DOMAIN shared_pools' \ {id} :
                             shared_pools'[other] # shared_pools'[id]
                      /\ SharedOthersReadSame(id)
        /\ (shared_count' = shared_count /\ shared_count >= 1
            /\ shared_pools' # shared_pools) =>
              \A id \in DOMAIN shared_pools' :
                  (shared_pools'[id] = shared_count
                   /\ SharedJoinLatest(id)) =>
                      /\ SharedPeek(id)' = SharedPoolValue(shared_count)
                      /\ \A other \in DOMAIN shared_pools :
                             shared_pools[other] = shared_count =>
                                 SharedPeek(other)' = SharedPeek(id)'
        /\ (shared_pools' = shared_pools /\ shared_data' # shared_data) =>
              \A id \in DOMAIN shared_pools, v \in Vals :
                  (SharedPoolValue(shared_pools[id])' = v
                   /\ SharedWrite(id, v)) =>
                      \A other \in DOMAIN shared_pools :
                          shared_pools[other] = shared_pools[id] =>
                              SharedPeek(other)' = v
      ]_vars

\* Two identities share a pool and its value; a third has a later pool of
\* its own with another value.
C11_Witness ==
    \E a, b, c \in DOMAIN shared_pools :
        /\ a # b /\ c \notin {a, b}
        /\ shared_pools[a] = shared_pools[b] /\ shared_pools[a] >= 1
        /\ shared_pools[c] > shared_pools[a]
        /\ SharedPeek(a) = SharedPeek(b)
        /\ SharedPeek(c) # SharedPeek(a)

\* C12: join_latest_pool(id) maps id to the most recently created pool and
\* creates none, also when no pool was ever created: every pool id an
\* identity is mapped to lies in 1..count, and the pools that hold a value
\* are the created ones, which joins and the reads after them leave as is.
C12_JoinNeverCreatesPool ==
    /\ \A id \in DOMAIN shared_pools : shared_pools[id] \in 1..shared_count
    /\ DOMAIN shared_data \subseteq 1..shared_count

\* C13: leave(id) of a mapped identity returns the value of its pool and
\* removes the mapping of id only: every pool keeps its value, also a pool
\* left without members; every other identity keeps its mapping and its
\* read; a read of id after the leave yields T{}.
C13_LeaveRemovesOnlyMapping ==
    [][ (shared_count' = shared_count /\ shared_pools' # shared_pools) =>
          \A id \in DOMAIN shared_pools :
              SharedLeave(id) =>
                  /\ SharedLeaveValue(id) = SharedPoolValue(shared_pools[id])
                  /\ id \notin DOMAIN shared_pools'
                  /\ \A other \in DOMAIN shared_pools \ {id} :
                         /\ other \in DOMAIN shared_pools'
                         /\ shared_pools'[other] = shared_pools[other]
                  /\ \A p \in DOMAIN shared_data :
                         /\ p \in DOMAIN shared_data'
                         /\ shared_data'[p] = shared_data[p]
                  /\ SharedOthersReadSame(id)
                  /\ SharedPeek(id)' = DefaultT
      ]_vars

\* C20: create_pool_for(id, v) takes a pool id above the counter, and the
\* counter never decreases and bounds every mapped pool id, so no identity
\* was ever mapped to the new pool; the new pool held no value; the step
\* moves id only: every other identity keeps its mapping and its read, and
\* every pool that held a value, the one id was in included, keeps it.
C20_CreatePoolIsFreshAndMovesOnlyId ==
    [][ /\ shared_count' >= shared_count
        /\ \A other \in DOMAIN shared_pools' :
               shared_pools'[other] <= shared_count'
        /\ sharedVars' # sharedVars =>
              \A id \in Ids, v \in Vals :
                  SharedCreatePool(id, v) =>
                      /\ shared_count' > shared_count
                      /\ shared_pools'[id] = shared_count'
                      /\ shared_pools'[id] \notin DOMAIN shared_data
                      /\ \A other \in DOMAIN shared_pools \ {id} :
                             /\ other \in DOMAIN shared_pools'
                             /\ shared_pools'[other] = shared_pools[other]
                      /\ SharedOthersReadSame(id)
                      /\ \A p \in DOMAIN shared_data :
                             /\ p \in DOMAIN shared_data'
                             /\ shared_data'[p] = shared_data[p]
      ]_vars

\* An identity has the newest pool to itself while another identity is in
\* an older pool that kept a different value.
C20_Witness ==
    \E a, b \in DOMAIN shared_pools :
        /\ a # b /\ shared_count >= 2
        /\ shared_pools[a] = shared_count
        /\ shared_pools[b] \in 1..(shared_count - 1)
        /\ SharedPeek(a) # SharedPeek(b)

\* C14: a removal of an identity that is not there changes nothing and
\* raises no error: unsubscribe(id) of a non-member on the Static_Datum and
\* on the Behavior, dissociate(id) on the Datum when it has no entry for id,
\* leave(id) on the Shared_Datum when id has no mapping.  Stated step by
\* step: a step that changes an object is not such a removal.
C14_RemovalOfAbsentIsNoOp ==
    [][ /\ staticVars' # staticVars =>
              \A id \in Ids \ static_tokens : ~StaticUnsubscribe(id)
        /\ behaviorVars' # behaviorVars =>
              \A id \in Ids \ tokens : ~BehaviorUnsubscribe(id)
        /\ <<datum_data, datum_invalid>>' # <<datum_data, datum_invalid>> =>
              \A id \in Ids \ DOMAIN datum_data : ~DatumDissociate(id)
        /\ sharedVars' # sharedVars =>
              \A id \in Ids \ DOMAIN shared_pools : ~SharedLeave(id)
      ]_vars

\* An identity that was no member has been unsubscribed from a Static_Datum
\* that has members.
C14_Witness ==
    /\ last.op = "unsubscribe" /\ last.old = 0
    /\ static_tokens # {} /\ last.id \notin static_tokens

(***************************************************************************)
(* Token claims.                                                           *)
(***************************************************************************)
\* C15: every value Token() issues is non-zero and greater than every value
\* Token() issued before, whatever Token(size_t&) calls come in between;
\* with the counter at its largest value Token() issues nothing, so the
\* counter never wraps to 0 or to a value issued before.
C15_CreateIssuesFreshIncreasing ==
    last.op = "create" =>
        /\ last.ret # 0
        /\ last.ret \notin last.old
        /\ \A x \in last.old : x < last.ret

(***************************************************************************)
(* Behavior claims on ct.                                                  *)
(***************************************************************************)
\* C16 as claimed: in every state ct is 0 or a subscribed identity, also
\* after unsubscribe(id) of the identity that is the current context.
C16_CtIsZeroOrMember == ct = 0 \/ ct \in tokens

\* C16: ct is 0 or an identity that was subscribed when ct was set: a step
\* that changes ct sets it to a member of the subscribed set and leaves the
\* set alone, and a step that changes the set (subscribe, unsubscribe)
\* leaves ct alone, so ct keeps an identity that is unsubscribed later.
C16_CtSetOnlyToMember ==
    [][ /\ ct' # ct => (ct' \in tokens /\ tokens' = tokens)
        /\ tokens' # tokens => ct' = ct
      ]_vars

\* The current context was unsubscribed: ct names a non-member, and the
\* Behavior's datum access resolves to that identity's entry.
C16_Witness ==
    /\ AllIdle /\ ct # 0 /\ ct \notin tokens
    /\ DatumSubscript(datum_data, ct).ref = EntryRef(ct)

\* C17: with the callers serialized, the callable started for an identity
\* runs with ct equal to that identity, and a single invoke_for observed no
\* other ct; without serialization this fails (C17_Witness).
C17_SerializedCallsKeepContext ==
    serial =>
        \A t \in Threads :
            /\ pc[t] = "body" => ct = frame[t].id
            /\ frame[t].op = "invoke" => frame[t].seen \subseteq {frame[t].id}

\* Unserialized: the callable that invoke_for started for a subscribed id1
\* has run, has observed ct = id2 # id1 and has written the Datum's value
\* for id2.
C17_Witness ==
    /\ ~serial
    /\ \E t \in Threads, id2 \in Ids :
          /\ frame[t].op = "invoke" /\ pc[t] = "done"
          /\ frame[t].execs = 1
          /\ id2 # frame[t].id /\ frame[t].seen = {id2}
          /\ id2 \in DOMAIN datum_data
          /\ frame[t].out = <<datum_data[id2]>>

\* C18: two Token() calls, one per thread: serialized, the two calls return
\* distinct values; not serialized, they can return the same value
\* (C18_Witness).
C18_SerializedCreatesDistinct ==
    serial =>
        \A t, u \in Threads :
            (t # u /\ tpc[t] = "made" /\ tpc[u] = "made") => self[t] # self[u]

\* Unserialized: both threads read the same count, and both constructors
\* returned the same value.
C18_Witness ==
    /\ ~serial
    /\ \A t \in Threads : tpc[t] = "made"
    /\ self["main"] = self["worker"]
    /\ token_count = self["main"]

(***************************************************************************)
(* Identity 0 and membership.                                              *)
(***************************************************************************)
\* C19: identity 0 is no identity for subscription: 0 is never a member of
\* the Behavior's subscribed set, so no lookup of 0 gets the stored
\* callable and no run of the callable observes ct = 0 as a member's
\* context; likewise 0 is never in the Static_Datum's set nor mapped to a
\* pool.
C19_ZeroIsNeverMember ==
    /\ 0 \notin tokens
    /\ 0 \notin static_tokens
    /\ 0 \notin DOMAIN shared_pools
    /\ \A t \in Threads :
          /\ (frame[t].op = "invoke" /\ frame[t].id = 0) =>
                frame[t].fn # "behavior"
          /\ (frame[t].op = "broadcast" /\ pc[t] = "body") => ct # 0

====
